---- MODULE Spec2Model ----
(***************************************************************************)
(* A model of the ledgertime transaction pipeline: the storage tables      *)
(* (users, cards, transactions) with the constraints of the schema, the    *)
(* ledger service's ProcessCardPayload as a process that every caller      *)
(* (HTTP handler, consumer worker) runs, and ValidateTransaction as a pure *)
(* function.                                                               *)
(***************************************************************************)
EXTENDS Integers, Sequences, FiniteSets, TLC

\* ------------------------------------------------------------------ bounds

\* The most rows the transactions table holds in a checked behaviour.
MaxTx == 2

\* The most direct calls of ValidateTransaction on one Transaction.
MaxValidateCalls == 2

\* The most messages the topic holds in a checked behaviour.
MaxMsgs == 2

\* The goroutines that run ProcessCardPayload: an HTTP request goroutine and
\* the Start goroutines of two consumer processes of one consumer group.
Workers == {"worker", "worker2"}
Procs == {"http"} \cup Workers

\* The callers taken through the pipeline side by side with account
\* registration: the HTTP request goroutine and one consumer worker.
Callers == {"http", "worker"}

\* The partitions of the transactions topic.
Partitions == {0, 1}

\* Identities uuid.New() hands out for users and cards, in the order used.
UserIdSeq == <<"u1", "u2">>
CardIdSeq == <<"c1", "c2">>
UserIds == {UserIdSeq[i] : i \in 1..Len(UserIdSeq)}

\* The user ids card registrations are asked for: the ids users can have,
\* and the empty string (the createCard mutation passes its argument on).
RequestUserIds == UserIds \cup {""}

\* Inputs of the payloads the callers submit.
CardNumbers == {"4111"}
Amounts == {0, 100000, 100001}
MerchantNames == {"", "Coffee Shop"}
Categories == {"", "dining"}
Timestamps == {"2024-01-15T10:30:00Z", "not-a-time"}

\* The instants time.Now() shows when a Transaction is built (seconds since
\* the epoch).
Clock == {1705314700}

\* ------------------------------------------------------------- constants

TransactionStatusPending == "pending"
TransactionStatusCompleted == "completed"
TransactionStatusFailed == "failed"

\* The per-transaction ceiling of processTransaction.
AmountLimit == 100000

\* ---------------------------------------------------------------- values

\* A nil *models.Card / *models.Transaction and a nil error.
NilCard == [id |-> "", user_id |-> "", card_number |-> "", is_active |-> FALSE]
NilTx == [ID |-> 0, UserID |-> "", CardID |-> "", Amount |-> 0,
          MerchantName |-> "", Category |-> "", Description |-> <<>>,
          Status |-> "", Timestamp |-> 0, CreatedAt |-> 0, UpdatedAt |-> 0]
NilErr == <<>>
NilPayload == [card_number |-> "", amount |-> 0, merchant_name |-> "",
               category |-> "", timestamp |-> ""]

\* A message value that is not the JSON of a CardPayload.
Garbage == <<"not json">>

\* kafka.Message as the reader returns it; seq is the position of the
\* message in the order of publication (its Time).
NilMsg == [partition |-> -1, offset |-> -1, key |-> "", value |-> <<>>,
           seq |-> 0]

CardPayload == [card_number : CardNumbers, amount : Amounts,
                merchant_name : MerchantNames, category : Categories,
                timestamp : Timestamps]

\* fmt.Errorf("<msg>: %w", err): the message chain, outermost first.
Wrap(msg, e) == <<msg>> \o e

VARIABLES
    users,         \* the users table: the ids of its rows
    cards,         \* the cards table: a set of rows
    transactions,  \* the transactions table: its rows in insertion order
    pc,            \* where each caller is inside ProcessCardPayload
    payload,       \* the CardPayload each caller passed
    card,          \* the card GetCardByNumber returned to the caller
    transaction,   \* the caller's *models.Transaction (built, then returned)
    err,           \* the error ProcessCardPayload returned to the caller
    injector,      \* what time.Now().UnixNano()%20 == 0 gave in settlement
    vtx,           \* the Transaction handed to a direct ValidateTransaction call
    vres,          \* the results of the direct ValidateTransaction calls so far
    topic,         \* the messages of each partition of the topic, in offset order
    committed,     \* the offset the consumer group has committed for each partition
    cur,           \* the kafka.Message each worker is inside processMessage with
    wpc,           \* where each worker is inside Consumer.Start
    mainPc,        \* where the main of each caller's process is
    log,           \* the lines the consumer processes have logged
    handed,        \* the messages handed to processMessage, in that order
    rest,          \* the last REST request of the read and payment handlers, answered
    gql            \* the last GraphQL query or mutation, resolved

vars == <<users, cards, transactions, pc, payload, card, transaction, err,
          injector, vtx, vres, rest, gql, topic, committed, cur, wpc, mainPc, log, handed>>
dbVars == <<users, cards, transactions>>
procVars == <<pc, payload, card, transaction, err, injector>>
validatorVars == <<vtx, vres>>
queryVars == <<rest, gql>>
consumerVars == <<topic, committed, cur, wpc, mainPc, log, handed>>

\* ------------------------------------------------------- pure functions

\* time.Parse(time.RFC3339, s): the instant (seconds since the epoch) of the
\* strings the callers send, or a parse error.
ParseRFC3339(s) ==
    CASE s = "2024-01-15T10:30:00Z" -> [t |-> 1705314600, err |-> NilErr]
      [] s = "2024-01-15T11:30:00+01:00" -> [t |-> 1705314600, err |-> NilErr]
      [] s = "2024-01-15T10:31:40Z" -> [t |-> 1705314700, err |-> NilErr]
      [] OTHER -> [t |-> 0, err |-> <<"parsing time">>]

\* ValidateTransaction with the amount rule written < 0: a zero amount passes.
ValidateTransactionAllowsZero(tx) ==
    IF tx.Amount < 0 THEN <<"amount must be positive">>
    ELSE IF tx.UserID = "" THEN <<"user ID cannot be empty">>
    ELSE IF tx.CardID = "" THEN <<"card ID cannot be empty">>
    ELSE IF tx.MerchantName = "" THEN <<"merchant name cannot be empty">>
    ELSE IF tx.Category = "" THEN <<"category cannot be empty">>
    ELSE NilErr

\* ValidateTransaction with the merchant rule moved to the front.
ValidateTransactionMerchantFirst(tx) ==
    IF tx.MerchantName = "" THEN <<"merchant name cannot be empty">>
    ELSE IF tx.Amount <= 0 THEN <<"amount must be positive">>
    ELSE IF tx.UserID = "" THEN <<"user ID cannot be empty">>
    ELSE IF tx.CardID = "" THEN <<"card ID cannot be empty">>
    ELSE IF tx.Category = "" THEN <<"category cannot be empty">>
    ELSE NilErr

\* Service.ValidateTransaction: the first rule that fails, or nil.
ValidateTransaction(tx) ==
    IF tx.Amount <= 0 THEN <<"amount must be positive">>
    ELSE IF tx.UserID = "" THEN <<"user ID cannot be empty">>
    ELSE IF tx.CardID = "" THEN <<"card ID cannot be empty">>
    ELSE IF tx.MerchantName = "" THEN <<"merchant name cannot be empty">>
    ELSE IF tx.Category = "" THEN <<"category cannot be empty">>
    ELSE NilErr

\* processTransaction with the ceiling test written >=.
processTransactionAtLimit(tx, fired) ==
    IF tx.Amount >= AmountLimit THEN <<"transaction amount exceeds limit">>
    ELSE IF fired THEN <<"processing failed due to network error">>
    ELSE NilErr

\* Service.processTransaction after its sleep: fired is the outcome of the
\* wall-clock test time.Now().UnixNano()%20 == 0.
processTransaction(tx, fired) ==
    IF tx.Amount > AmountLimit THEN <<"transaction amount exceeds limit">>
    ELSE IF fired THEN <<"processing failed due to network error">>
    ELSE NilErr

\* The first element of seq that is not in used (uuid.New(): a fresh identity).
FirstUnused(seq, used) ==
    LET free == {i \in 1..Len(seq) : seq[i] \notin used}
    IN  seq[CHOOSE i \in free : \A j \in free : i <= j]

\* ------------------------------------------------------------- storage

\* The transaction ids in use: the stored rows' and the ones callers hold.
UsedTxIds ==
    {transactions[i].ID : i \in 1..Len(transactions)}
        \cup {transaction[p].ID : p \in Procs}

\* An identity derived from the number of stored rows: two callers that both
\* wait to save get the same one.
NewUUIDFromRowCount == Len(transactions) + 1

\* uuid.New().String() for a transaction: an identity nobody holds.
NewUUID == CHOOSE i \in 1..(MaxTx + Cardinality(Procs) + 1) :
               /\ i \notin UsedTxIds
               /\ \A j \in 1..(i - 1) : j \in UsedTxIds

\* GetCardByNumber without the is_active = true condition.
GetCardByNumberAnyStatus(cardNumber) ==
    LET rows == {c \in cards : c.card_number = cardNumber}
    IN  IF rows = {}
        THEN [card |-> NilCard, err |-> <<"card not found">>]
        ELSE [card |-> CHOOSE c \in rows : TRUE, err |-> NilErr]

\* GetCardByNumber scanning the id and user_id columns into each other's field.
GetCardByNumberSwapped(cardNumber) ==
    LET rows == {c \in cards : c.card_number = cardNumber /\ c.is_active = TRUE}
        row == CHOOSE c \in rows : TRUE
    IN  IF rows = {}
        THEN [card |-> NilCard, err |-> <<"card not found">>]
        ELSE [card |-> [row EXCEPT !.id = row.user_id, !.user_id = row.id],
              err |-> NilErr]

\* DB.GetCardByNumber: SELECT ... WHERE card_number = $1 AND is_active = true;
\* sql.ErrNoRows becomes "card not found".
GetCardByNumber(cardNumber) ==
    LET rows == {c \in cards : c.card_number = cardNumber /\ c.is_active = TRUE}
    IN  IF rows = {}
        THEN [card |-> NilCard, err |-> <<"card not found">>]
        ELSE [card |-> CHOOSE c \in rows : TRUE, err |-> NilErr]

\* The cards table without UNIQUE (card_number).
CardInsertableNotUnique(c) ==
    /\ \A d \in cards : d.id # c.id
    /\ c.user_id \in users

\* The cards table without the foreign key to users.
CardInsertableNoForeignKey(c) ==
    /\ \A d \in cards : d.id # c.id
    /\ \A d \in cards : d.card_number # c.card_number

\* The constraints of the cards table: PRIMARY KEY (id), user_id REFERENCES
\* users(id), UNIQUE (card_number).
CardInsertable(c) ==
    /\ \A d \in cards : d.id # c.id
    /\ c.user_id \in users
    /\ \A d \in cards : d.card_number # c.card_number

\* The transactions table without its two CHECK constraints.
TransactionInsertableUnchecked(tx) ==
    /\ \A i \in 1..Len(transactions) : transactions[i].ID # tx.ID
    /\ tx.UserID \in users
    /\ \E c \in cards : c.id = tx.CardID

\* The constraints of the transactions table: PRIMARY KEY (id), the two
\* foreign keys, CHECK (amount > 0), CHECK (status IN (...)).
TransactionInsertable(tx) ==
    /\ \A i \in 1..Len(transactions) : transactions[i].ID # tx.ID
    /\ tx.UserID \in users
    /\ \E c \in cards : c.id = tx.CardID
    /\ tx.Amount > 0
    /\ tx.Status \in {TransactionStatusPending, TransactionStatusCompleted,
                      TransactionStatusFailed}

\* -------------------------------------------------- account registration

\* createUser / DB.CreateUser: a row with a fresh id.
CreateUser ==
    /\ \E i \in 1..Len(UserIdSeq) : UserIdSeq[i] \notin users
    /\ users' = users \cup {FirstUnused(UserIdSeq, users)}
    /\ UNCHANGED <<cards, transactions, procVars, validatorVars>>

\* createCard / DB.CreateCard: the handler builds an active card with a fresh
\* id for the user id and card number of the request; the INSERT fails, and
\* leaves the table as it was, when a constraint rejects the row.
NewCard(userID, cardNumber) ==
    [id |-> FirstUnused(CardIdSeq, {c.id : c \in cards}),
     user_id |-> userID, card_number |-> cardNumber, is_active |-> TRUE]

CreateCard(userID, cardNumber) ==
    /\ \E i \in 1..Len(CardIdSeq) : \A c \in cards : c.id # CardIdSeq[i]
    /\ cards' = IF CardInsertable(NewCard(userID, cardNumber))
                THEN cards \cup {NewCard(userID, cardNumber)}
                ELSE cards
    /\ UNCHANGED <<users, transactions, procVars, validatorVars>>

\* Deactivation of a card (the active flag set to false, the row kept).
DeactivateCard(cardNumber) ==
    /\ \E c \in cards : c.card_number = cardNumber /\ c.is_active
    /\ cards' = {IF c.card_number = cardNumber
                 THEN [c EXCEPT !.is_active = FALSE] ELSE c : c \in cards}
    /\ UNCHANGED <<users, transactions, procVars, validatorVars>>

\* ------------------------------------------------- ProcessCardPayload

\* A builder that takes the update instant from a second reading of the clock.
BuildTransactionSecondClock(pl, c, timestamp, now) ==
    [ID |-> NewUUID, UserID |-> c.user_id, CardID |-> c.id,
     Amount |-> pl.amount, MerchantName |-> pl.merchant_name,
     Category |-> pl.category,
     Description |-> <<"Card payment at ", pl.merchant_name>>,
     Status |-> TransactionStatusPending, Timestamp |-> timestamp,
     CreatedAt |-> now, UpdatedAt |-> now + 1]

\* The Transaction ProcessCardPayload builds from the payload, the resolved
\* card and the parsed timestamp.
BuildTransaction(pl, c, timestamp, now) ==
    [ID |-> NewUUID, UserID |-> c.user_id, CardID |-> c.id,
     Amount |-> pl.amount, MerchantName |-> pl.merchant_name,
     Category |-> pl.category,
     Description |-> <<"Card payment at ", pl.merchant_name>>,
     Status |-> TransactionStatusPending, Timestamp |-> timestamp,
     CreatedAt |-> now, UpdatedAt |-> now]

\* Intake that goes on to the save when validation fails.
IntakeIgnoresValidation(pl, now) ==
    LET found == GetCardByNumber(pl.card_number)
        parsed == ParseRFC3339(pl.timestamp)
        built == BuildTransaction(pl, found.card, parsed.t, now)
    IN  IF found.err # NilErr
        THEN [pc |-> "done", card |-> NilCard, transaction |-> NilTx,
              err |-> Wrap("card not found", found.err)]
        ELSE IF parsed.err # NilErr
        THEN [pc |-> "done", card |-> found.card, transaction |-> NilTx,
              err |-> Wrap("invalid timestamp", parsed.err)]
        ELSE [pc |-> "save", card |-> found.card, transaction |-> built,
              err |-> NilErr]

\* Intake that parses the timestamp before it looks the card up.
IntakeParsesFirst(pl, now) ==
    LET found == GetCardByNumber(pl.card_number)
        parsed == ParseRFC3339(pl.timestamp)
        built == BuildTransaction(pl, found.card, parsed.t, now)
        invalid == ValidateTransaction(built)
    IN  IF parsed.err # NilErr
        THEN [pc |-> "done", card |-> NilCard, transaction |-> NilTx,
              err |-> Wrap("invalid timestamp", parsed.err)]
        ELSE IF found.err # NilErr
        THEN [pc |-> "done", card |-> NilCard, transaction |-> NilTx,
              err |-> Wrap("card not found", found.err)]
        ELSE IF invalid # NilErr
        THEN [pc |-> "done", card |-> found.card, transaction |-> NilTx,
              err |-> Wrap("transaction validation failed", invalid)]
        ELSE [pc |-> "save", card |-> found.card, transaction |-> built,
              err |-> NilErr]

\* ProcessCardPayload up to its validation: resolve the card, parse the
\* timestamp, build, validate. The outcome is the caller's next position, its
\* card and transaction, and the error returned if it stops here.
Intake(pl, now) ==
    LET found == GetCardByNumber(pl.card_number)
        parsed == ParseRFC3339(pl.timestamp)
        built == BuildTransaction(pl, found.card, parsed.t, now)
        invalid == ValidateTransaction(built)
    IN  IF found.err # NilErr
        THEN [pc |-> "done", card |-> NilCard, transaction |-> NilTx,
              err |-> Wrap("card not found", found.err)]
        ELSE IF parsed.err # NilErr
        THEN [pc |-> "done", card |-> found.card, transaction |-> NilTx,
              err |-> Wrap("invalid timestamp", parsed.err)]
        ELSE IF invalid # NilErr
        THEN [pc |-> "done", card |-> found.card, transaction |-> NilTx,
              err |-> Wrap("transaction validation failed", invalid)]
        ELSE [pc |-> "save", card |-> found.card, transaction |-> built,
              err |-> NilErr]

\* The rows stored plus the ones callers are about to store.
RowsClaimed == Len(transactions) + Cardinality({p \in Procs : pc[p] = "save"})

\* A caller enters ProcessCardPayload with a payload and runs it up to the
\* save (or to the error it returns before it).
Call(p, pl, now) ==
    /\ pc[p] = "idle"
    /\ Intake(pl, now).pc = "save" => RowsClaimed < MaxTx
    /\ pc' = [pc EXCEPT ![p] = Intake(pl, now).pc]
    /\ payload' = [payload EXCEPT ![p] = pl]
    /\ card' = [card EXCEPT ![p] = Intake(pl, now).card]
    /\ transaction' = [transaction EXCEPT ![p] = Intake(pl, now).transaction]
    /\ err' = [err EXCEPT ![p] = Intake(pl, now).err]
    /\ UNCHANGED <<dbVars, injector, validatorVars>>

\* A save behind a mutex that invocations hold during settlement.
SaveUnderSettlementLock(p) ==
    /\ pc[p] = "save"
    /\ \A q \in Procs : pc[q] # "settle"
    /\ IF mainPc[p] # "dbclosed" /\ TransactionInsertable(transaction[p])
       THEN /\ transactions' = Append(transactions, transaction[p])
            /\ pc' = [pc EXCEPT ![p] = "settle"]
            /\ UNCHANGED <<transaction, err>>
       ELSE /\ err' = [err EXCEPT ![p] = Wrap("failed to save transaction",
                                          <<"failed to create transaction">>)]
            /\ transaction' = [transaction EXCEPT ![p] = NilTx]
            /\ pc' = [pc EXCEPT ![p] = "done"]
            /\ UNCHANGED transactions
    /\ UNCHANGED <<users, cards, payload, card, injector, validatorVars>>

\* DB.CreateTransaction and the caller's handling of its error.
Save(p) ==
    /\ pc[p] = "save"
    /\ IF mainPc[p] # "dbclosed" /\ TransactionInsertable(transaction[p])
       THEN /\ transactions' = Append(transactions, transaction[p])
            /\ pc' = [pc EXCEPT ![p] = "settle"]
            /\ UNCHANGED <<transaction, err>>
       ELSE /\ err' = [err EXCEPT ![p] = Wrap("failed to save transaction",
                                          <<"failed to create transaction">>)]
            /\ transaction' = [transaction EXCEPT ![p] = NilTx]
            /\ pc' = [pc EXCEPT ![p] = "done"]
            /\ UNCHANGED transactions
    /\ UNCHANGED <<users, cards, payload, card, injector, validatorVars>>

\* A status assignment that handles only the success branch.
SettledStatusOnlyOnSuccess(e) ==
    IF e # NilErr THEN TransactionStatusPending ELSE TransactionStatusCompleted

\* The status ProcessCardPayload gives its transaction from the result of
\* processTransaction.
SettledStatus(e) ==
    IF e # NilErr THEN TransactionStatusFailed ELSE TransactionStatusCompleted

\* A settlement that writes its status to storage with UPDATE ... WHERE
\* user_id = $1: every row of the user takes the status.
SettleUpdatingByUser(p) ==
    /\ pc[p] = "settle"
    /\ \E fired \in BOOLEAN :
          /\ injector' = [injector EXCEPT ![p] = fired]
          /\ transaction' = [transaction EXCEPT ![p].Status =
                 SettledStatus(processTransaction(transaction[p], fired))]
    /\ transactions' =
          [i \in 1..Len(transactions) |->
              IF transactions[i].UserID = transaction[p].UserID
              THEN [transactions[i] EXCEPT !.Status = transaction'[p].Status]
              ELSE transactions[i]]
    /\ pc' = [pc EXCEPT ![p] = "done"]
    /\ UNCHANGED <<users, cards, payload, card, err, validatorVars>>

\* processTransaction returns in the caller, which sets the status of its
\* transaction and returns it. No statement writes the status to storage.
Settle(p) ==
    /\ pc[p] = "settle"
    /\ \E fired \in BOOLEAN :
          /\ injector' = [injector EXCEPT ![p] = fired]
          /\ transaction' = [transaction EXCEPT ![p].Status =
                 SettledStatus(processTransaction(transaction[p], fired))]
    /\ pc' = [pc EXCEPT ![p] = "done"]
    /\ UNCHANGED <<dbVars, payload, card, err, validatorVars>>

\* The caller has used the result; its goroutine is free for the next call.
Return(p) ==
    /\ pc[p] = "done"
    /\ pc' = [pc EXCEPT ![p] = "idle"]
    /\ payload' = [payload EXCEPT ![p] = NilPayload]
    /\ card' = [card EXCEPT ![p] = NilCard]
    /\ transaction' = [transaction EXCEPT ![p] = NilTx]
    /\ err' = [err EXCEPT ![p] = NilErr]
    /\ injector' = [injector EXCEPT ![p] = FALSE]
    /\ UNCHANGED <<dbVars, validatorVars>>

\* An exit that takes the pending row of the invocation with it.
CrashRollingBack(p) ==
    /\ pc[p] \in {"save", "settle", "done"}
    /\ transactions' = SelectSeq(transactions,
                                 LAMBDA r : r.ID # transaction[p].ID)
    /\ pc' = [pc EXCEPT ![p] = "exited"]
    /\ payload' = [payload EXCEPT ![p] = NilPayload]
    /\ card' = [card EXCEPT ![p] = NilCard]
    /\ transaction' = [transaction EXCEPT ![p] = NilTx]
    /\ err' = [err EXCEPT ![p] = NilErr]
    /\ injector' = [injector EXCEPT ![p] = FALSE]
    /\ UNCHANGED <<users, cards, validatorVars>>

\* The process of caller p ends while p is inside ProcessCardPayload (main
\* returns without waiting for the goroutine, or the process is killed): the
\* invocation's memory is gone, storage keeps what was written.
Crash(p) ==
    /\ pc[p] \in {"save", "settle", "done"}
    /\ pc' = [pc EXCEPT ![p] = "exited"]
    /\ payload' = [payload EXCEPT ![p] = NilPayload]
    /\ card' = [card EXCEPT ![p] = NilCard]
    /\ transaction' = [transaction EXCEPT ![p] = NilTx]
    /\ err' = [err EXCEPT ![p] = NilErr]
    /\ injector' = [injector EXCEPT ![p] = FALSE]
    /\ UNCHANGED <<dbVars, validatorVars>>

\* The process of caller p is started again.
Restart(p) ==
    /\ pc[p] = "exited"
    /\ pc' = [pc EXCEPT ![p] = "idle"]
    /\ UNCHANGED <<dbVars, payload, card, transaction, err, injector,
                   validatorVars>>

\* ------------------------------------------------------------- the reads

Min(a, b) == IF a < b THEN a ELSE b

\* The positions of the stored rows of a user.
UserRows(userID) == {i \in 1..Len(transactions) : transactions[i].UserID = userID}

\* ORDER BY timestamp DESC over a user's rows: every order of the rows that
\* has no earlier timestamp before a later one (rows with equal timestamps
\* come in an order the database picks).
OrderedByTimestampDesc(userID) ==
    LET n == Cardinality(UserRows(userID))
    IN  {[k \in 1..n |-> transactions[f[k]]] :
            f \in {g \in [1..n -> UserRows(userID)] :
                      /\ \A a, b \in 1..n : a # b => g[a] # g[b]
                      /\ \A a, b \in 1..n : a < b =>
                             transactions[g[a]].Timestamp >=
                             transactions[g[b]].Timestamp}}

\* DB.GetTransactionsByUser: the results the query can give, LIMIT $2
\* OFFSET $3 applied to the ordered rows.
GetTransactionsByUser(userID, limit, offset) ==
    {SubSeq(s, offset + 1, Min(offset + limit, Len(s))) :
        s \in OrderedByTimestampDesc(userID)}

\* Service.GetUserTransactions over DB.GetTransactionsByUser: PostgreSQL
\* rejects a negative LIMIT or OFFSET, and the error comes back wrapped.
GetUserTransactions(userID, limit, offset) ==
    IF limit < 0 \/ offset < 0
    THEN {[transactions |-> <<>>,
           err |-> <<"failed to get user transactions",
                     "failed to get transactions">>]}
    ELSE {[transactions |-> s, err |-> NilErr] :
             s \in GetTransactionsByUser(userID, limit, offset)}

\* The positions of the rows WHERE user_id = $1 AND status = 'completed'.
CompletedRows(userID) ==
    {i \in UserRows(userID) : transactions[i].Status = TransactionStatusCompleted}

RECURSIVE SumAmounts(_)
SumAmounts(S) ==
    IF S = {} THEN 0
    ELSE LET i == CHOOSE j \in S : TRUE
         IN  transactions[i].Amount + SumAmounts(S \ {i})

\* MODE() WITHIN GROUP over a column of the rows S: the values no other
\* value is more frequent than (PostgreSQL picks one of them).
Modes(S, column) ==
    LET freq(v) == Cardinality({i \in S : transactions[i][column] = v})
    IN  {transactions[i][column] : i \in
            {j \in S : \A k \in S : freq(transactions[k][column])
                                       <= freq(transactions[j][column])}}

\* The numeric values the aggregates give over bigint: SUM has no
\* fractional digits, AVG has sixteen.
SumNumeric(S) == [whole |-> SumAmounts(S), scale |-> 0]
AvgNumeric(S) == [whole |-> SumAmounts(S) \div Cardinality(S), scale |-> 16]

\* Scan of a numeric column into an int64: the text the driver returns goes
\* through strconv.ParseInt, which rejects a decimal point.
ScanInt64(numeric) ==
    IF numeric.scale = 0
    THEN [v |-> numeric.whole, err |-> NilErr]
    ELSE [v |-> 0, err |-> <<"sql: Scan error on column index 3",
                             "converting driver.Value type []uint8 to a int64">>]

NilSummary == [UserID |-> "", TotalAmount |-> 0, TotalCount |-> 0,
               AvgAmount |-> 0, TopCategory |-> "", TopMerchant |-> ""]

\* GetTransactionSummary treating an empty result as an error.
GetTransactionSummaryNoRowsFails(userID) ==
    LET S == CompletedRows(userID)
    IN  IF S = {} \/ ScanInt64(AvgNumeric(S)).err # NilErr
        THEN {[summary |-> NilSummary,
               err |-> <<"failed to get transaction summary">>]}
        ELSE {[summary |-> [UserID |-> userID,
                            TotalAmount |-> ScanInt64(SumNumeric(S)).v,
                            TotalCount |-> Cardinality(S),
                            AvgAmount |-> ScanInt64(AvgNumeric(S)).v,
                            TopCategory |-> c, TopMerchant |-> m],
               err |-> NilErr] :
                 c \in Modes(S, "Category"),
                 m \in Modes(S, "MerchantName")}

\* DB.GetTransactionSummary: the aggregate row of the user's completed rows
\* scanned into a TransactionSummary; no row (sql.ErrNoRows) gives the zero
\* summary with the user id; a scan error is returned.
GetTransactionSummary(userID) ==
    LET S == CompletedRows(userID)
    IN  IF S = {}
        THEN {[summary |-> [NilSummary EXCEPT !.UserID = userID],
               err |-> NilErr]}
        ELSE IF ScanInt64(AvgNumeric(S)).err # NilErr
        THEN {[summary |-> NilSummary,
               err |-> Wrap("failed to get transaction summary",
                            ScanInt64(AvgNumeric(S)).err)]}
        ELSE {[summary |-> [UserID |-> userID,
                            TotalAmount |-> ScanInt64(SumNumeric(S)).v,
                            TotalCount |-> Cardinality(S),
                            AvgAmount |-> ScanInt64(AvgNumeric(S)).v,
                            TopCategory |-> c, TopMerchant |-> m],
               err |-> NilErr] :
                 c \in Modes(S, "Category"),
                 m \in Modes(S, "MerchantName")}

\* Service.GetUserSummary: the summary, or the error wrapped.
GetUserSummary(userID) ==
    {IF r.err = NilErr THEN r
     ELSE [summary |-> NilSummary,
           err |-> Wrap("failed to get user summary", r.err)] :
        r \in GetTransactionSummary(userID)}

\* ------------------------------------------------------ the HTTP interface

\* strconv.Atoi of the query strings of the model.
Atoi(str) ==
    CASE str = "-5" -> [n |-> -5, err |-> NilErr]
      [] str = "-1" -> [n |-> -1, err |-> NilErr]
      [] str = "0" -> [n |-> 0, err |-> NilErr]
      [] str = "1" -> [n |-> 1, err |-> NilErr]
      [] str = "2" -> [n |-> 2, err |-> NilErr]
      [] str = "10" -> [n |-> 10, err |-> NilErr]
      [] OTHER -> [n |-> 0, err |-> <<"invalid syntax">>]

\* A limit rule that lets 0 through.
RestLimitAllowsZero(limitStr) ==
    IF limitStr # "" /\ Atoi(limitStr).err = NilErr /\ Atoi(limitStr).n >= 0
    THEN Atoi(limitStr).n
    ELSE 10

\* getUserTransactions: the limit and offset it passes on for the query
\* strings of the request.
RestLimit(limitStr) ==
    IF limitStr # "" /\ Atoi(limitStr).err = NilErr /\ Atoi(limitStr).n > 0
    THEN Atoi(limitStr).n
    ELSE 10
RestOffset(offsetStr) ==
    IF offsetStr # "" /\ Atoi(offsetStr).err = NilErr /\ Atoi(offsetStr).n >= 0
    THEN Atoi(offsetStr).n
    ELSE 0

\* GET /users/{id}/transactions.
getUserTransactions(userID, limitStr, offsetStr) ==
    /\ \E r \in GetUserTransactions(userID, RestLimit(limitStr),
                                     RestOffset(offsetStr)) :
          rest' = [op |-> "transactions", user |-> userID,
                   limitStr |-> limitStr, offsetStr |-> offsetStr,
                   limit |-> RestLimit(limitStr),
                   offset |-> RestOffset(offsetStr),
                   status |-> IF r.err # NilErr THEN 500 ELSE 200,
                   transactions |-> r.transactions, err |-> r.err]
    /\ UNCHANGED <<dbVars, procVars, validatorVars, consumerVars, gql>>

\* GET /users/{id}/summary.
getUserSummary(userID) ==
    /\ \E r \in GetUserSummary(userID) :
          rest' = [op |-> "summary", user |-> userID,
                   status |-> IF r.err # NilErr THEN 500 ELSE 200,
                   summary |-> r.summary, err |-> r.err]
    /\ UNCHANGED <<dbVars, procVars, validatorVars, consumerVars, gql>>

\* POST /transactions with a body that decodes to pl: the handler enters
\* ProcessCardPayload with pl.
createTransaction(pl, now) ==
    /\ Call("http", pl, now)
    /\ rest' = [op |-> "process", payload |-> pl]
    /\ UNCHANGED <<consumerVars, gql>>

\* --------------------------------------------------- the GraphQL interface

\* An argument of a field: <<>> when the query leaves it out, <<v>> when it
\* gives v; graphql-go puts the DefaultValue of the schema in its place.
Arg(given, default) == IF given = <<>> THEN default ELSE given[1]

\* getTransactionsResolver: limit and offset go to GetUserTransactions as
\* they come (defaults 10 and 0 from the schema).
getTransactionsResolver(userID, limitArg, offsetArg) ==
    /\ \E r \in GetUserTransactions(userID, Arg(limitArg, 10),
                                     Arg(offsetArg, 0)) :
          gql' = [op |-> "transactions", user |-> userID,
                  limitArg |-> limitArg, offsetArg |-> offsetArg,
                  limit |-> Arg(limitArg, 10), offset |-> Arg(offsetArg, 0),
                  transactions |-> r.transactions, err |-> r.err]
    /\ UNCHANGED <<dbVars, procVars, validatorVars, consumerVars, rest>>

\* getUserSummaryResolver.
getUserSummaryResolver(userID) ==
    /\ \E r \in GetUserSummary(userID) :
          gql' = [op |-> "summary", user |-> userID,
                  summary |-> r.summary, err |-> r.err]
    /\ UNCHANGED <<dbVars, procVars, validatorVars, consumerVars, rest>>

\* mapMCCToCategory.
mapMCCToCategory(mcc) ==
    CASE mcc \in {"5411", "5412"} -> "groceries"
      [] mcc \in {"5541", "5542"} -> "gas"
      [] mcc \in {"5812", "5814"} -> "dining"
      [] OTHER -> "general"

\* time.Now().Format(time.RFC3339) for the instants of the clock.
FormatRFC3339(t) ==
    CASE t = 1705314600 -> "2024-01-15T10:30:00Z"
      [] t = 1705314700 -> "2024-01-15T10:31:40Z"
      [] OTHER -> "2024-01-15T10:31:41Z"

\* The CardPayload processTransactionResolver builds from its arguments.
ResolverPayload(cardNumber, amount, merchantName, mccArg, now) ==
    [card_number |-> cardNumber, amount |-> amount,
     merchant_name |-> merchantName,
     category |-> IF mccArg = <<>> THEN "general"
                  ELSE mapMCCToCategory(mccArg[1]),
     timestamp |-> FormatRFC3339(now)]

\* The processTransaction mutation: the resolver enters ProcessCardPayload
\* with the payload it built.
processTransactionResolver(cardNumber, amount, merchantName, mccArg, now) ==
    /\ Call("http", ResolverPayload(cardNumber, amount, merchantName, mccArg,
                                    now), now)
    /\ gql' = [op |-> "process", card_number |-> cardNumber,
               amount |-> amount, merchant_name |-> merchantName,
               mcc |-> mccArg,
               payload |-> ResolverPayload(cardNumber, amount, merchantName,
                                           mccArg, now)]
    /\ UNCHANGED <<consumerVars, rest>>

\* The status createTransaction answers with: 400 when the body does not
\* decode, 500 when ProcessCardPayload returned an error, 201 otherwise.
createTransactionStatus(decodeFailed, e) ==
    IF decodeFailed THEN 400
    ELSE IF e # NilErr THEN 500
    ELSE 201

\* ------------------------------------------------------- the event bridge

\* json.Marshal of a CardPayload, and json.Unmarshal of a message value into
\* a CardPayload.
Marshal(pl) == <<"json", pl>>
Unmarshal(v) ==
    IF Len(v) = 2 /\ v[1] = "json"
    THEN [payload |-> v[2], err |-> NilErr]
    ELSE [payload |-> NilPayload, err |-> <<"invalid character">>]

\* len() of the strings of the model, and of the decimal text of an amount.
StrLen(str) ==
    CASE str = "" -> 0
      [] str = "4111" -> 4
      [] str = "dining" -> 6
      [] str = "Coffee Shop" -> 11
      [] str = "not-a-time" -> 10
      [] str = "2024-01-15T10:30:00Z" -> 20
      [] OTHER -> 25
Digits(n) == IF n < 10 THEN 1 ELSE 6

\* len(msg.Key) + len(msg.Value) of the message PublishCardPayload builds:
\* the card number, and the JSON text with its 77 characters of keys and
\* punctuation.
MessageBytes(pl) ==
    StrLen(pl.card_number) + 77 + StrLen(pl.card_number) + Digits(pl.amount)
        + StrLen(pl.merchant_name) + StrLen(pl.category) + StrLen(pl.timestamp)

RECURSIVE SumBytes(_)
SumBytes(msgs) ==
    IF msgs = <<>> THEN 0
    ELSE (IF Unmarshal(Head(msgs).value).err = NilErr
          THEN MessageBytes(Unmarshal(Head(msgs).value).payload) ELSE 0)
         + SumBytes(Tail(msgs))

\* kafka.LeastBytes: the partition the writer has sent the fewest bytes to,
\* the lowest-numbered one among equals; the key of the message plays no part.
LeastBytesBalance(key) ==
    CHOOSE k \in Partitions :
        \A j \in Partitions :
            \/ SumBytes(topic[k]) < SumBytes(topic[j])
            \/ SumBytes(topic[k]) = SumBytes(topic[j]) /\ k <= j

TotalMsgs == Len(topic[0]) + Len(topic[1])

\* Producer.PublishCardPayload: the payload as JSON, keyed by its card
\* number, written to the partition the balancer picks.
PublishCardPayload(pl) ==
    /\ TotalMsgs < MaxMsgs
    /\ LET k == LeastBytesBalance(pl.card_number)
       IN  topic' = [topic EXCEPT ![k] = Append(@,
                        [partition |-> k, offset |-> Len(@),
                         key |-> pl.card_number, value |-> Marshal(pl),
                         seq |-> TotalMsgs + 1])]
    /\ UNCHANGED <<dbVars, procVars, validatorVars, committed, cur, wpc,
                   mainPc, log, handed>>

\* Another writer of the topic appends a message whose value is not the JSON
\* of a CardPayload.
ForeignPublish(k, key) ==
    /\ TotalMsgs < MaxMsgs
    /\ topic' = [topic EXCEPT ![k] = Append(@,
                     [partition |-> k, offset |-> Len(@), key |-> key,
                      value |-> Garbage, seq |-> TotalMsgs + 1])]
    /\ UNCHANGED <<dbVars, procVars, validatorVars, committed, cur, wpc,
                   mainPc, log, handed>>

\* The members of the consumer group (the processes whose reader is open),
\* and the member a partition is assigned to.
WorkerSeq == <<"worker", "worker2">>
MemberSeq == SelectSeq(WorkerSeq, LAMBDA w : mainPc[w] \in {"running", "cancelled"})
Owner(k) == IF MemberSeq = <<>> THEN "" ELSE MemberSeq[(k % Len(MemberSeq)) + 1]

\* A line of the log: the worker that wrote it, the message it was inside
\* processMessage with (NoMessage outside), the text and the key-value pairs.
NoMessage == <<-1, -1>>
Line(w, about, msg, fields) ==
    [worker |-> w, about |-> about, msg |-> msg, fields |-> fields]

\* The lines ProcessCardPayload logs up to the save, for the result r of
\* those steps.
IntakeLines(w, about, pl, r) ==
    {Line(w, about, "Processing card payload",
          {<<"card_number", pl.card_number>>, <<"amount", pl.amount>>})}
    \cup (IF r.err = NilErr THEN {}
          ELSE IF r.err[1] = "card not found"
          THEN {Line(w, about, "Card not found",
                     {<<"error", Tail(r.err)>>,
                      <<"card_number", pl.card_number>>})}
          ELSE IF r.err[1] = "invalid timestamp"
          THEN {Line(w, about, "Invalid timestamp",
                     {<<"error", Tail(r.err)>>, <<"timestamp", pl.timestamp>>})}
          ELSE {Line(w, about, "Transaction validation failed",
                     {<<"error", Tail(r.err)>>, <<"transaction_id", NewUUID>>})})

\* The line Consumer.Start logs when processMessage returned an error.
FailureLine(w, m, e) ==
    Line(w, <<m.partition, m.offset>>, "Failed to process message",
         {<<"error", e>>, <<"offset", m.offset>>})

\* The loop with FetchMessage in place of ReadMessage: the message is
\* returned and no offset is committed.
ConsumeWithoutCommit(w, now) ==
    /\ wpc[w] = "loop"
    /\ Len(handed) < MaxMsgs + 1
    /\ mainPc[w] = "running"
    /\ \E k \in Partitions :
          /\ Owner(k) = w
          /\ committed[k] < Len(topic[k])
          /\ LET m == topic[k][committed[k] + 1]
                 un == Unmarshal(m.value)
                 about == <<m.partition, m.offset>>
                 processing == Line(w, about, "Processing message",
                                    {<<"offset", m.offset>>,
                                     <<"partition", m.partition>>})
             IN  /\ committed' = committed
                 /\ handed' = Append(handed, about)
                 /\ IF un.err # NilErr
                    THEN /\ log' = log \cup
                               {processing,
                                FailureLine(w, m,
                                    Wrap("failed to unmarshal message", un.err))}
                         /\ UNCHANGED <<dbVars, procVars, validatorVars, cur,
                                        wpc>>
                    ELSE /\ Call(w, un.payload, now)
                         /\ cur' = [cur EXCEPT ![w] = m]
                         /\ wpc' = [wpc EXCEPT ![w] = "busy"]
                         /\ log' = log \cup {processing} \cup
                               IntakeLines(w, about, un.payload,
                                           Intake(un.payload, now))
    /\ UNCHANGED <<topic, mainPc>>

\* The default branch of the loop of Consumer.Start up to the first wait of
\* the pipeline: ReadMessage returns the next message of a partition of this
\* member and commits its offset; processMessage logs, unmarshals and calls
\* ProcessCardPayload; a value that does not unmarshal is logged and dropped.
Consume(w, now) ==
    /\ wpc[w] = "loop"
    /\ mainPc[w] = "running"
    /\ \E k \in Partitions :
          /\ Owner(k) = w
          /\ committed[k] < Len(topic[k])
          /\ LET m == topic[k][committed[k] + 1]
                 un == Unmarshal(m.value)
                 about == <<m.partition, m.offset>>
                 processing == Line(w, about, "Processing message",
                                    {<<"offset", m.offset>>,
                                     <<"partition", m.partition>>})
             IN  /\ committed' = [committed EXCEPT ![k] = @ + 1]
                 /\ handed' = Append(handed, about)
                 /\ IF un.err # NilErr
                    THEN /\ log' = log \cup
                               {processing,
                                FailureLine(w, m,
                                    Wrap("failed to unmarshal message", un.err))}
                         /\ UNCHANGED <<dbVars, procVars, validatorVars, cur,
                                        wpc>>
                    ELSE /\ Call(w, un.payload, now)
                         /\ cur' = [cur EXCEPT ![w] = m]
                         /\ wpc' = [wpc EXCEPT ![w] = "busy"]
                         /\ log' = log \cup {processing} \cup
                               IntakeLines(w, about, un.payload,
                                           Intake(un.payload, now))
    /\ UNCHANGED <<topic, mainPc>>

\* Save for a worker, with the line ProcessCardPayload logs when it fails.
WorkerSave(w) ==
    /\ Save(w)
    /\ log' = log \cup
          (IF err'[w] = NilErr THEN {}
           ELSE {Line(w, <<cur[w].partition, cur[w].offset>>,
                      "Failed to save transaction",
                      {<<"error", Tail(err'[w])>>,
                       <<"transaction_id", transaction[w].ID>>})})
    /\ UNCHANGED <<topic, committed, cur, wpc, mainPc, handed>>

\* Settle for a worker, with the lines ProcessCardPayload logs.
WorkerSettle(w) ==
    /\ Settle(w)
    /\ log' = log \cup
          {Line(w, <<cur[w].partition, cur[w].offset>>, "Transaction processed",
                {<<"transaction_id", transaction[w].ID>>,
                 <<"status", transaction'[w].Status>>})}
          \cup (IF transaction'[w].Status = TransactionStatusFailed
                THEN {Line(w, <<cur[w].partition, cur[w].offset>>,
                           "Transaction processing failed",
                           {<<"error", processTransaction(transaction[w],
                                                          injector'[w])>>,
                            <<"transaction_id", transaction[w].ID>>})}
                ELSE {})
    /\ UNCHANGED <<topic, committed, cur, wpc, mainPc, handed>>

\* A worker that puts a failed message back: the committed offset returns to
\* the message when processMessage returned an error.
ProcessMessageReturnsToRetry(w) ==
    /\ wpc[w] = "busy"
    /\ pc[w] = "done"
    /\ Return(w)
    /\ committed' = IF err[w] # NilErr /\ Len(handed) < MaxMsgs + 1
                    THEN [committed EXCEPT ![cur[w].partition] = cur[w].offset]
                    ELSE committed
    /\ log' = log \cup
          {IF err[w] # NilErr
           THEN FailureLine(w, cur[w],
                    Wrap("failed to process card payload", err[w]))
           ELSE Line(w, <<cur[w].partition, cur[w].offset>>,
                     "Transaction processed successfully",
                     {<<"transaction_id", transaction[w].ID>>,
                      <<"user_id", transaction[w].UserID>>,
                      <<"amount", transaction[w].Amount>>})}
    /\ wpc' = [wpc EXCEPT ![w] = "loop"]
    /\ cur' = [cur EXCEPT ![w] = NilMsg]
    /\ UNCHANGED <<topic, mainPc, handed>>

\* A loop that returns the error of processMessage: Start ends with it and
\* main logs it.
ProcessMessageReturnsStopsOnError(w) ==
    /\ wpc[w] = "busy"
    /\ pc[w] = "done"
    /\ Return(w)
    /\ log' = log \cup
          (IF err[w] # NilErr
           THEN {FailureLine(w, cur[w],
                     Wrap("failed to process card payload", err[w])),
                 Line(w, NoMessage, "Consumer error", {})}
           ELSE {Line(w, <<cur[w].partition, cur[w].offset>>,
                      "Transaction processed successfully",
                      {<<"transaction_id", transaction[w].ID>>,
                       <<"user_id", transaction[w].UserID>>,
                       <<"amount", transaction[w].Amount>>})})
    /\ wpc' = [wpc EXCEPT ![w] = IF err[w] # NilErr THEN "stopped" ELSE "loop"]
    /\ cur' = [cur EXCEPT ![w] = NilMsg]
    /\ UNCHANGED <<topic, committed, mainPc, handed>>

\* ProcessCardPayload returns to processMessage and processMessage to the
\* loop of Consumer.Start, which logs an error and goes round.
ProcessMessageReturns(w) ==
    /\ wpc[w] = "busy"
    /\ pc[w] = "done"
    /\ Return(w)
    /\ log' = log \cup
          {IF err[w] # NilErr
           THEN FailureLine(w, cur[w],
                    Wrap("failed to process card payload", err[w]))
           ELSE Line(w, <<cur[w].partition, cur[w].offset>>,
                     "Transaction processed successfully",
                     {<<"transaction_id", transaction[w].ID>>,
                      <<"user_id", transaction[w].UserID>>,
                      <<"amount", transaction[w].Amount>>})}
    /\ wpc' = [wpc EXCEPT ![w] = "loop"]
    /\ cur' = [cur EXCEPT ![w] = NilMsg]
    /\ UNCHANGED <<topic, committed, mainPc, handed>>

\* ReadMessage returns an error because the context is cancelled or the
\* reader is closed while the call waits: the loop logs it and goes round.
ReadFails(w) ==
    /\ wpc[w] = "loop"
    /\ mainPc[w] \in {"cancelled", "closed", "dbclosed"}
    /\ log' = log \cup {Line(w, NoMessage, "Failed to read message", {})}
    /\ UNCHANGED <<dbVars, procVars, validatorVars, topic, committed, cur,
                   wpc, mainPc, handed>>

\* The loop of Consumer.Start finds the context cancelled and returns nil.
StartReturns(w) ==
    /\ wpc[w] = "loop"
    /\ mainPc[w] \in {"cancelled", "closed", "dbclosed"}
    /\ wpc' = [wpc EXCEPT ![w] = "stopped"]
    /\ log' = log \cup {Line(w, NoMessage,
                             "Consumer context cancelled, shutting down", {})}
    /\ UNCHANGED <<dbVars, procVars, validatorVars, topic, committed, cur,
                   mainPc, handed>>

\* main of the consumer process after the signal: cancel().
MainCancel(w) ==
    /\ mainPc[w] = "running"
    /\ mainPc' = [mainPc EXCEPT ![w] = "cancelled"]
    /\ log' = log \cup {Line(w, NoMessage, "Shutting down consumer...", {})}
    /\ UNCHANGED <<dbVars, procVars, validatorVars, topic, committed, cur,
                   wpc, handed>>

\* main: consumer.Close(), which closes the reader.
ConsumerClose(w) ==
    /\ mainPc[w] = "cancelled"
    /\ mainPc' = [mainPc EXCEPT ![w] = "closed"]
    /\ log' = log \cup {Line(w, NoMessage, "Closing Kafka consumer", {})}
    /\ UNCHANGED <<dbVars, procVars, validatorVars, topic, committed, cur,
                   wpc, handed>>

\* main returns: the deferred database.Close() runs.
DatabaseClose(w) ==
    /\ mainPc[w] = "closed"
    /\ mainPc' = [mainPc EXCEPT ![w] = "dbclosed"]
    /\ log' = log \cup {Line(w, NoMessage, "Consumer exited properly", {})}
    /\ UNCHANGED <<dbVars, procVars, validatorVars, topic, committed, cur,
                   wpc, handed>>

\* The process ends, and its Start goroutine with it wherever it is.
MainExit(w) ==
    /\ mainPc[w] = "dbclosed"
    /\ mainPc' = [mainPc EXCEPT ![w] = "exited"]
    /\ wpc' = [wpc EXCEPT ![w] = "stopped"]
    /\ cur' = [cur EXCEPT ![w] = NilMsg]
    /\ IF pc[w] \in {"save", "settle", "done"}
       THEN Crash(w)
       ELSE UNCHANGED <<dbVars, procVars, validatorVars>>
    /\ UNCHANGED <<topic, committed, log, handed>>

\* ----------------------------------------------------------- the system

\* No request has been answered.
NoQuery == [op |-> "none"]
NoQueries == rest = NoQuery /\ gql = NoQuery

\* An empty topic, nothing committed, every process up with its worker at
\* the top of the loop of Consumer.Start, nothing logged.
ConsumersStarted ==
    /\ topic = [k \in Partitions |-> <<>>]
    /\ committed = [k \in Partitions |-> 0]
    /\ cur = [w \in Workers |-> NilMsg]
    /\ wpc = [w \in Workers |-> "loop"]
    /\ mainPc = [p \in Procs |-> "running"]
    /\ log = {}
    /\ handed = <<>>

Init ==
    /\ users = {}
    /\ cards = {}
    /\ transactions = <<>>
    /\ pc = [p \in Procs |-> "idle"]
    /\ payload = [p \in Procs |-> NilPayload]
    /\ card = [p \in Procs |-> NilCard]
    /\ transaction = [p \in Procs |-> NilTx]
    /\ err = [p \in Procs |-> NilErr]
    /\ injector = [p \in Procs |-> FALSE]
    /\ vtx = NilTx
    /\ vres = <<>>
    /\ ConsumersStarted
    /\ NoQueries

Next ==
    \/ CreateUser /\ UNCHANGED <<consumerVars, queryVars>>
    \/ \E u \in RequestUserIds, n \in CardNumbers :
          CreateCard(u, n) /\ UNCHANGED <<consumerVars, queryVars>>
    \/ \E n \in CardNumbers : DeactivateCard(n) /\ UNCHANGED <<consumerVars, queryVars>>
    \/ \E p \in Callers, pl \in CardPayload, now \in Clock :
          Call(p, pl, now) /\ UNCHANGED <<consumerVars, queryVars>>
    \/ \E p \in Callers : Save(p) /\ UNCHANGED <<consumerVars, queryVars>>
    \/ \E p \in Callers : Settle(p) /\ UNCHANGED <<consumerVars, queryVars>>
    \/ \E p \in Callers : Return(p) /\ UNCHANGED <<consumerVars, queryVars>>
    \/ \E p \in Callers : Crash(p) /\ UNCHANGED <<consumerVars, queryVars>>
    \/ \E p \in Callers : Restart(p) /\ UNCHANGED <<consumerVars, queryVars>>

Spec == Init /\ [][Next]_vars

\* ------------------------------------- ValidateTransaction called directly

\* The Transactions handed to ValidateTransaction (an exported method: any
\* caller may pass any Transaction, also one with empty references).
TxInputs ==
    [ID : {1}, UserID : {"", "u1"}, CardID : {"", "c1"},
     Amount : {-5, 0, 2500}, MerchantName : MerchantNames,
     Category : Categories, Description : {<<"Card payment at ", "x">>},
     Status : {TransactionStatusPending}, Timestamp : {1705314600},
     CreatedAt : {1705314700}, UpdatedAt : {1705314700}]

\* A validator that normalises the Transaction it is given: a non-positive
\* amount is replaced after the check.
ValidateCallNormalises ==
    /\ Len(vres) < MaxValidateCalls
    /\ vres' = Append(vres, ValidateTransaction(vtx))
    /\ vtx' = [vtx EXCEPT !.Amount = IF vtx.Amount <= 0 THEN 1 ELSE vtx.Amount]
    /\ UNCHANGED <<dbVars, procVars>>

\* One call s.ValidateTransaction(tx): the result is returned, the
\* Transaction behind the pointer and the service are left as they were.
ValidateCall ==
    /\ Len(vres) < MaxValidateCalls
    /\ vres' = Append(vres, ValidateTransaction(vtx))
    /\ vtx' = vtx
    /\ UNCHANGED <<dbVars, procVars>>

InitValidate ==
    /\ users = {}
    /\ cards = {}
    /\ transactions = <<>>
    /\ pc = [p \in Procs |-> "idle"]
    /\ payload = [p \in Procs |-> NilPayload]
    /\ card = [p \in Procs |-> NilCard]
    /\ transaction = [p \in Procs |-> NilTx]
    /\ err = [p \in Procs |-> NilErr]
    /\ injector = [p \in Procs |-> FALSE]
    /\ vtx \in TxInputs
    /\ vres = <<>>
    /\ ConsumersStarted
    /\ NoQueries

NextValidate == ValidateCall /\ UNCHANGED <<consumerVars, queryVars>>

SpecValidate == InitValidate /\ [][NextValidate]_vars

\* ------------------------------------------ the consumers of one group

\* The payloads published: of a registered card, with a merchant, a category
\* and a timestamp; one amount fails validation, the other reaches the save.
PublishedPayloads ==
    {pl \in CardPayload : /\ pl.amount <= AmountLimit
                          /\ pl.merchant_name = "Coffee Shop"
                          /\ pl.category = "dining"
                          /\ pl.timestamp = "2024-01-15T10:30:00Z"}

\* One user with one active card is registered; the consumers have started.
InitConsumer ==
    /\ users = {"u1"}
    /\ cards = {[id |-> "c1", user_id |-> "u1", card_number |-> "4111",
                 is_active |-> TRUE]}
    /\ transactions = <<>>
    /\ pc = [p \in Procs |-> "idle"]
    /\ payload = [p \in Procs |-> NilPayload]
    /\ card = [p \in Procs |-> NilCard]
    /\ transaction = [p \in Procs |-> NilTx]
    /\ err = [p \in Procs |-> NilErr]
    /\ injector = [p \in Procs |-> FALSE]
    /\ vtx = NilTx
    /\ vres = <<>>
    /\ ConsumersStarted
    /\ NoQueries

NextConsumer ==
    \/ \E pl \in PublishedPayloads : PublishCardPayload(pl) /\ UNCHANGED queryVars
    \/ \E k \in Partitions, n \in CardNumbers : ForeignPublish(k, n) /\ UNCHANGED queryVars
    \/ \E w \in Workers, now \in Clock : Consume(w, now) /\ UNCHANGED queryVars
    \/ \E w \in Workers : WorkerSave(w) /\ UNCHANGED queryVars
    \/ \E w \in Workers : WorkerSettle(w) /\ UNCHANGED queryVars
    \/ \E w \in Workers : ProcessMessageReturns(w) /\ UNCHANGED queryVars
    \/ \E w \in Workers : ReadFails(w) /\ UNCHANGED queryVars
    \/ \E w \in Workers : StartReturns(w) /\ UNCHANGED queryVars
    \/ \E w \in Workers : MainCancel(w) /\ UNCHANGED queryVars
    \/ \E w \in Workers : ConsumerClose(w) /\ UNCHANGED queryVars
    \/ \E w \in Workers : DatabaseClose(w) /\ UNCHANGED queryVars
    \/ \E w \in Workers : MainExit(w) /\ UNCHANGED queryVars

SpecConsumer == InitConsumer /\ [][NextConsumer]_vars

\* The steps of the goroutine that runs Consumer.Start, once a message is
\* read: the pipeline, the return of processMessage and the return of Start.
WorkerStep(w) ==
    (\/ WorkerSave(w) \/ WorkerSettle(w) \/ ProcessMessageReturns(w)
     \/ StartReturns(w)) /\ UNCHANGED queryVars

\* The consumers under a scheduler that keeps running a goroutine that can
\* take a step (a call that has begun returns, and the loop goes on).
SpecConsumerFair ==
    InitConsumer /\ [][NextConsumer]_vars
        /\ \A w \in Workers : WF_vars(WorkerStep(w))

\* The read interface over a table whose rows were settled elsewhere: the
\* REST handlers and the GraphQL resolvers answer requests for the
\* transactions and the summary of a user, and take payments.

\* A stored row of the transactions table.
Row(id, userID, amount, merchantName, category, status, timestamp) ==
    [ID |-> id, UserID |-> userID,
     CardID |-> IF userID = "u1" THEN "c1" ELSE "c2",
     Amount |-> amount, MerchantName |-> merchantName, Category |-> category,
     Description |-> <<"Card payment at ", merchantName>>,
     Status |-> status, Timestamp |-> timestamp,
     CreatedAt |-> timestamp, UpdatedAt |-> timestamp]

\* Three completed rows of one user.
ThreeCompleted ==
    <<Row(101, "u1", 500, "Deli", "food", TransactionStatusCompleted, 1705314100),
      Row(102, "u1", 1000, "Deli", "food", TransactionStatusCompleted, 1705314200),
      Row(103, "u1", 1500, "Shell", "gas", TransactionStatusCompleted, 1705314300)>>

\* The tables the requests are answered from: none; three completed rows;
\* those with a pending row of the user and a completed row of another
\* user; pending and failed rows only; two completed rows with the
\* same timestamp and different categories.
QueryTables ==
    {<<>>,
     ThreeCompleted,
     ThreeCompleted \o
       <<Row(104, "u1", 700, "Deli", "food", TransactionStatusPending, 1705314400),
         Row(106, "u2", 900, "Shell", "gas", TransactionStatusCompleted, 1705314600)>>,
     <<Row(101, "u1", 700, "Deli", "food", TransactionStatusPending, 1705314100),
       Row(102, "u1", 100001, "Shell", "gas", TransactionStatusFailed, 1705314200)>>,
     <<Row(101, "u1", 500, "Deli", "food", TransactionStatusCompleted, 1705314100),
       Row(102, "u1", 1000, "Shell", "gas", TransactionStatusCompleted, 1705314100)>>}

\* The query strings and the GraphQL arguments of the requests.
LimitStrs == {"", "abc", "-5", "0", "2"}
OffsetStrs == {"", "abc", "-1", "1"}
LimitArgs == {<<>>, <<-5>>, <<0>>, <<2>>}
OffsetArgs == {<<>>, <<-1>>, <<1>>}
MccArgs == {<<>>, <<"5812">>}

\* The payments the two interfaces are asked to take.
QueryPayloads ==
    {pl \in CardPayload : /\ pl.amount = 100000
                          /\ pl.merchant_name = "Coffee Shop"
                          /\ pl.timestamp = "2024-01-15T10:30:00Z"}

InitQuery ==
    /\ users = {"u1", "u2"}
    /\ cards = {[id |-> "c1", user_id |-> "u1", card_number |-> "4111",
                 is_active |-> TRUE],
                [id |-> "c2", user_id |-> "u2", card_number |-> "4222",
                 is_active |-> TRUE]}
    /\ transactions \in QueryTables
    /\ pc = [p \in Procs |-> "idle"]
    /\ payload = [p \in Procs |-> NilPayload]
    /\ card = [p \in Procs |-> NilCard]
    /\ transaction = [p \in Procs |-> NilTx]
    /\ err = [p \in Procs |-> NilErr]
    /\ injector = [p \in Procs |-> FALSE]
    /\ vtx = NilTx
    /\ vres = <<>>
    /\ ConsumersStarted
    /\ NoQueries

NextQuery ==
    \/ \E u \in UserIds, l \in LimitStrs, o \in OffsetStrs :
          getUserTransactions(u, l, o)
    \/ \E u \in UserIds, l \in LimitArgs, o \in OffsetArgs :
          getTransactionsResolver(u, l, o)
    \/ \E u \in UserIds : getUserSummary(u)
    \/ \E u \in UserIds : getUserSummaryResolver(u)
    \/ \E pl \in QueryPayloads, now \in Clock : createTransaction(pl, now)
    \/ \E n \in CardNumbers, m \in MccArgs, now \in Clock :
          processTransactionResolver(n, 100000, "Coffee Shop", m, now)
    \/ Save("http") /\ UNCHANGED <<consumerVars, queryVars>>
    \/ Settle("http") /\ UNCHANGED <<consumerVars, queryVars>>

SpecQuery == InitQuery /\ [][NextQuery]_vars

\* ------------------------------------------------------------ properties

\* What the payload checks of the pipeline ask of a payload, stated on the
\* payload: a positive amount, a merchant, a category, an RFC3339 timestamp.
PayloadValid(pl) ==
    /\ pl.amount > 0
    /\ pl.merchant_name # ""
    /\ pl.category # ""
    /\ pl.timestamp \in {"2024-01-15T10:30:00Z", "2024-01-15T11:30:00+01:00"}

TerminalStatuses == {"completed", "failed"}

\* The errors ProcessCardPayload returns, as the caller sees them.
ErrCardNotFound == <<"card not found", "card not found">>
ErrTimestampInvalid == <<"invalid timestamp", "parsing time">>
ErrAmountInvalid == <<"transaction validation failed", "amount must be positive">>

\* The rows of the cards table with a card number.
CardsWithNumber(n) == {c \in cards : c.card_number = n}
ActiveCardsWithNumber(n) == {c \in CardsWithNumber(n) : c.is_active}

\* Caller p enters ProcessCardPayload in this step.
Enters(p) == pc[p] = "idle" /\ pc'[p] # "idle"

\* The stored rows with an id.
RowsWithId(id) == {i \in 1..Len(transactions) : transactions[i].ID = id}

\* C1: a payload that resolved to an active card and is valid gives the caller
\* a Transaction, and the Transaction returned is completed or failed, never
\* pending.
C1_ReturnedStatusTerminal ==
    \A p \in Procs :
        (pc[p] = "done" /\ card[p] # NilCard /\ PayloadValid(payload[p]))
            => /\ err[p] = NilErr
               /\ transaction[p] # NilTx
               /\ transaction[p].Status \in TerminalStatuses
               /\ transaction[p].Status # "pending"

C1_Witness ==
    \E p \in Procs :
        /\ pc[p] = "done"
        /\ card[p] \in cards
        /\ PayloadValid(payload[p])
        /\ transaction[p].Status = "completed"

\* C2 (as claimed): when ProcessCardPayload has returned a Transaction, the
\* stored row with its id carries the terminal status the returned
\* Transaction carries.
C2_StoredRowFollowsSettlement ==
    \A p \in Procs :
        (pc[p] = "done" /\ err[p] = NilErr)
            => \E i \in RowsWithId(transaction[p].ID) :
                   transactions[i].Status = transaction[p].Status

\* C3: a call that fails at card resolution, at timestamp parsing or at
\* validation returns an error and no Transaction, never reaches the save,
\* and leaves the stored rows as they were; after the error the caller does
\* nothing but return (no retry).
FailsBeforeSave(pl) ==
    \/ ActiveCardsWithNumber(pl.card_number) = {}
    \/ ~PayloadValid(pl)

C3_EarlyFailureWritesNothing ==
    [][\A p \in Procs :
          /\ (Enters(p) /\ FailsBeforeSave(payload'[p]))
                => /\ pc'[p] = "done"
                   /\ err'[p] # NilErr
                   /\ transaction'[p] = NilTx
                   /\ transactions' = transactions
          /\ (pc[p] = "done" /\ err[p] # NilErr /\ pc'[p] # "done")
                => /\ pc'[p] \in {"idle", "exited"}
                   /\ transactions' = transactions]_vars

C3_Witness ==
    \E p \in Procs :
        /\ pc[p] = "done"
        /\ err[p] = <<"transaction validation failed",
                      "merchant name cannot be empty">>
        /\ Len(transactions) = 1

\* C4 (as claimed): every payload with amount <= 0 fails with the
\* AmountInvalid error.
C4_NonPositiveAmountAlwaysAmountInvalid ==
    \A p \in Procs :
        (pc[p] = "done" /\ payload[p].amount <= 0) => err[p] = ErrAmountInvalid

\* C4 (amended): every payload with amount <= 0 fails and creates no row; the
\* error is AmountInvalid when the card resolves and the timestamp parses,
\* and the error of the earlier stage otherwise.
C4_NonPositiveAmountRejected ==
    [][\A p \in Procs :
          (Enters(p) /\ payload'[p].amount <= 0)
              => /\ pc'[p] = "done"
                 /\ transactions' = transactions
                 /\ err'[p] # NilErr
                 /\ err'[p] = IF ActiveCardsWithNumber(payload'[p].card_number) = {}
                              THEN ErrCardNotFound
                              ELSE IF payload'[p].timestamp = "not-a-time"
                              THEN ErrTimestampInvalid
                              ELSE ErrAmountInvalid]_vars

C4_Witness ==
    \E p \in Procs :
        /\ pc[p] = "done"
        /\ payload[p].amount <= 0
        /\ err[p] = ErrAmountInvalid
        /\ card[p] \in cards

\* C5: a returned Transaction over 100000 is failed whatever the injector
\* gave; one of at most 100000 is failed exactly when the injector fired and
\* completed otherwise; and a settled call returns no error.
C5_SettlementDecision ==
    \A p \in Procs :
        (pc[p] = "done" /\ transaction[p] # NilTx)
            => /\ err[p] = NilErr
               /\ transaction[p].Amount > 100000
                      => transaction[p].Status = "failed"
               /\ (transaction[p].Amount <= 100000 /\ injector[p])
                      => transaction[p].Status = "failed"
               /\ (transaction[p].Amount <= 100000 /\ ~injector[p])
                      => transaction[p].Status = "completed"

C5_Witness ==
    \E p, q \in Procs :
        /\ pc[p] = "done" /\ pc[q] = "done"
        /\ transaction[p].Amount = 100000 /\ ~injector[p]
        /\ transaction[p].Status = "completed"
        /\ transaction[q].Amount = 100001 /\ ~injector[q]
        /\ transaction[q].Status = "failed" /\ err[q] = NilErr

\* C6: no two stored rows share an id; the Transactions two callers hold have
\* different ids; each call that passed validation stores exactly one row,
\* under its own id and with its own data, and none of them is refused by
\* storage, so that a payload submitted twice gives two rows.
SameData(row, tx) ==
    /\ row.UserID = tx.UserID /\ row.CardID = tx.CardID
    /\ row.Amount = tx.Amount /\ row.MerchantName = tx.MerchantName
    /\ row.Category = tx.Category /\ row.Timestamp = tx.Timestamp

C6_OneRowPerIdentity ==
    /\ \A i, j \in 1..Len(transactions) :
           i # j => transactions[i].ID # transactions[j].ID
    /\ \A p, q \in Procs :
           (p # q /\ transaction[p] # NilTx /\ transaction[q] # NilTx)
               => transaction[p].ID # transaction[q].ID
    /\ \A p \in Procs :
           /\ pc[p] = "save" => RowsWithId(transaction[p].ID) = {}
           /\ (pc[p] \in {"settle", "done"} /\ transaction[p] # NilTx)
                 => /\ Cardinality(RowsWithId(transaction[p].ID)) = 1
                    /\ \A i \in RowsWithId(transaction[p].ID) :
                           SameData(transactions[i], transaction[p])
           /\ (pc[p] = "done" /\ card[p] # NilCard /\ PayloadValid(payload[p]))
                 => err[p] = NilErr

C6_Witness ==
    /\ Len(transactions) = 2
    /\ SameData(transactions[1], transactions[2])
    /\ transactions[1].ID # transactions[2].ID
    /\ \A p \in Callers : pc[p] = "done" /\ err[p] = NilErr

\* C7 (as claimed): resolving fails with the not-found error when no card has
\* the number, and with another, distinct error when a card has the number
\* but is inactive; resolving changes no stored state.
C7_InactiveErrorDistinct ==
    [][\A p \in Procs :
          Enters(p) =>
              /\ CardsWithNumber(payload'[p].card_number) = {}
                    => err'[p] = ErrCardNotFound
              /\ (/\ CardsWithNumber(payload'[p].card_number) # {}
                  /\ ActiveCardsWithNumber(payload'[p].card_number) = {})
                    => (err'[p] # NilErr /\ err'[p] # ErrCardNotFound)
              /\ UNCHANGED dbVars]_vars

\* C7 (amended): resolving fails with the same not-found error when no card
\* has the number and when the card with the number is inactive; it succeeds
\* when the card is active; resolving changes no stored state.
C7_InactiveIsNotFound ==
    [][\A p \in Procs :
          Enters(p) =>
              /\ ActiveCardsWithNumber(payload'[p].card_number) = {}
                    => (err'[p] = ErrCardNotFound /\ card'[p] = NilCard)
              /\ ActiveCardsWithNumber(payload'[p].card_number) # {}
                    => (err'[p] # ErrCardNotFound /\ card'[p] # NilCard)
              /\ UNCHANGED dbVars]_vars

C7_Witness ==
    \E p \in Procs :
        /\ pc[p] = "done"
        /\ err[p] = ErrCardNotFound
        /\ \E c \in cards :
               c.card_number = payload[p].card_number /\ ~c.is_active

\* C8: a card that has just been registered resolves, by its number, to the
\* user id and card id registered; a caller that resolves a number gets the
\* registered row while it is active, and an error once it is deactivated.
C8_ResolverRoundTrip ==
    [][/\ \A c \in cards' \ cards :
              c.is_active =>
                  /\ GetCardByNumber(c.card_number)'.err = NilErr
                  /\ GetCardByNumber(c.card_number)'.card.user_id = c.user_id
                  /\ GetCardByNumber(c.card_number)'.card.id = c.id
                  /\ c.user_id \in users /\ c.id \notin {d.id : d \in cards}
       /\ \A p \in Procs :
              Enters(p) =>
                  /\ \A c \in ActiveCardsWithNumber(payload'[p].card_number) :
                         /\ card'[p].user_id = c.user_id
                         /\ card'[p].id = c.id
                  /\ (\E c \in CardsWithNumber(payload'[p].card_number) :
                          ~c.is_active)
                         => (err'[p] # NilErr /\ card'[p] = NilCard)]_vars

C8_Witness ==
    \E p, q \in Procs :
        /\ pc[p] = "settle"
        /\ card[p].user_id = "u2" /\ card[p].id = "c1"
        /\ [card[p] EXCEPT !.is_active = FALSE] \in cards
        /\ pc[q] = "done"
        /\ payload[q].card_number = card[p].card_number
        /\ err[q] = ErrCardNotFound

\* C9: ValidateTransaction reports the first failing rule in the order
\* amount, references (user id, card id), merchant name, category, and nil
\* when none fails.
C9_FirstFailureWins ==
    \A i \in 1..Len(vres) :
        /\ vtx.Amount <= 0 => vres[i] = <<"amount must be positive">>
        /\ (vtx.Amount > 0 /\ (vtx.UserID = "" \/ vtx.CardID = ""))
              => vres[i] \in {<<"user ID cannot be empty">>,
                              <<"card ID cannot be empty">>}
        /\ (vtx.Amount > 0 /\ vtx.UserID # "" /\ vtx.CardID # ""
              /\ vtx.MerchantName = "")
              => vres[i] = <<"merchant name cannot be empty">>
        /\ (vtx.Amount > 0 /\ vtx.UserID # "" /\ vtx.CardID # ""
              /\ vtx.MerchantName # "" /\ vtx.Category = "")
              => vres[i] = <<"category cannot be empty">>
        /\ (vtx.Amount > 0 /\ vtx.UserID # "" /\ vtx.CardID # ""
              /\ vtx.MerchantName # "" /\ vtx.Category # "")
              => vres[i] = NilErr

C9_Witness ==
    /\ Len(vres) = 1
    /\ vtx.Amount <= 0 /\ vtx.UserID = "" /\ vtx.MerchantName = ""
    /\ vtx.Category = ""
    /\ vres[1] = <<"amount must be positive">>

C11_BuiltTransaction ==
    [][\A p \in Procs :
          /\ (Enters(p) /\ pc'[p] = "save")
                => /\ RowsWithId(transaction'[p].ID) = {}
                   /\ \A q \in Procs \ {p} :
                          transaction[q].ID # transaction'[p].ID
                   /\ transaction'[p].UserID = card'[p].user_id
                   /\ transaction'[p].CardID = card'[p].id
                   /\ card'[p] \in ActiveCardsWithNumber(payload'[p].card_number)
                   /\ transaction'[p].Amount = payload'[p].amount
                   /\ transaction'[p].MerchantName = payload'[p].merchant_name
                   /\ transaction'[p].Category = payload'[p].category
                   /\ transaction'[p].Description =
                          <<"Card payment at ", payload'[p].merchant_name>>
                   /\ transaction'[p].Status = "pending"
                   /\ transaction'[p].CreatedAt = transaction'[p].UpdatedAt
                   /\ transaction'[p].CreatedAt \in Clock
                   /\ ParseRFC3339(payload'[p].timestamp).err = NilErr
                   /\ transaction'[p].Timestamp =
                          ParseRFC3339(payload'[p].timestamp).t
          /\ (/\ Enters(p)
              /\ ActiveCardsWithNumber(payload'[p].card_number) # {}
              /\ ParseRFC3339(payload'[p].timestamp).err # NilErr)
                => /\ pc'[p] = "done"
                   /\ err'[p] = ErrTimestampInvalid
                   /\ transaction'[p] = NilTx]_vars

C11_Witness ==
    /\ \E p \in Procs :
          /\ pc[p] = "save"
          /\ transaction[p].Description = <<"Card payment at ", "Coffee Shop">>
          /\ transaction[p].CreatedAt = transaction[p].UpdatedAt
          /\ transaction[p].ID = 2
    /\ \E q \in Procs : pc[q] = "done" /\ err[q] = ErrTimestampInvalid

\* C12: a row CreateTransaction has written is never removed: after every
\* step, whatever settlement decided and also when the process exits between
\* the pending write and the end of the invocation, every row stored before
\* the step is still stored with its id, with a status of the three (at
\* worst pending); and in every state every stored row is in every result
\* GetTransactionsByUser can give its user with a limit that covers the rows.
C12_PendingRowDurable ==
    /\ [][\A i \in 1..Len(transactions) :
            \E j \in 1..Len(transactions') :
               /\ transactions'[j].ID = transactions[i].ID
               /\ transactions'[j].Status \in
                      {"pending", "completed", "failed"}]_vars
    /\ [](\A u \in users :
            \A res \in GetTransactionsByUser(u, Len(transactions), 0) :
               \A i \in UserRows(u) :
                  \E k \in 1..Len(res) : res[k].ID = transactions[i].ID)

C12_Witness ==
    /\ \E p \in Procs : pc[p] = "exited"
    /\ Len(transactions) = 2
    /\ \A i \in 1..Len(transactions) :
          /\ transactions[i].Status = "pending"
          /\ \A p \in Procs : transaction[p].ID # transactions[i].ID
    /\ \A res \in GetTransactionsByUser(transactions[1].UserID, 10, 0) :
          \E k \in 1..Len(res) : res[k] = transactions[1]

\* The lines Consumer.Start logged for messages whose processing failed.
FailureLines(l) == {x \in l : x.msg = "Failed to process message"}

\* The message at an offset of a partition.
MessageAt(about) == topic[about[1]][about[2] + 1]

\* C13: when the processing of a consumed message fails, because its value
\* does not unmarshal or because ProcessCardPayload returned an error, the
\* consumer logs the error, the committed offset is past the message and
\* never moves back, the worker is at the top of its loop again for the
\* following messages, and no message is handed to processMessage twice.
C13_FailurePolicy ==
    /\ [][/\ \A k \in Partitions : committed'[k] >= committed[k]
          /\ (/\ Len(handed') = Len(handed) + 1
              /\ Unmarshal(MessageAt(handed'[Len(handed')]).value).err # NilErr)
                => \E x \in FailureLines(log') \ FailureLines(log) :
                      /\ x.about = handed'[Len(handed')]
                      /\ x.fields = {<<"error", <<"failed to unmarshal message",
                                                  "invalid character">>>>,
                                     <<"offset", x.about[2]>>}
                      /\ wpc'[x.worker] = "loop"
                      /\ pc'[x.worker] = "idle"
          /\ \A w \in Workers :
                (wpc[w] = "busy" /\ pc[w] = "done" /\ err[w] # NilErr
                    /\ wpc'[w] = "loop")
                => \E x \in FailureLines(log') \ FailureLines(log) :
                      /\ x.about = <<cur[w].partition, cur[w].offset>>
                      /\ <<"error", Wrap("failed to process card payload",
                                         err[w])>> \in x.fields
                      /\ pc'[w] = "idle"
                      /\ transactions' = transactions]_vars
    /\ [](/\ \A i, j \in 1..Len(handed) : i # j => handed[i] # handed[j]
          /\ \A x \in FailureLines(log) :
                /\ committed[x.about[1]] > x.about[2]
                /\ \E i \in 1..Len(handed) : handed[i] = x.about)

C13_Witness ==
    /\ handed = <<(<<0, 0>>), (<<0, 1>>)>>
    /\ committed[0] = 2
    /\ \E x, y \in FailureLines(log) :
          /\ x.about = <<0, 0>>
          /\ <<"error", <<"failed to unmarshal message", "invalid character">>>>
                \in x.fields
          /\ y.about = <<0, 1>>
          /\ <<"error", <<"failed to process card payload",
                          "transaction validation failed",
                          "amount must be positive">>>> \in y.fields
    /\ wpc["worker"] = "loop"
    /\ mainPc["worker"] = "running"

\* The messages of the topic that PublishCardPayload wrote.
Published ==
    {m \in UNION {{topic[k][i] : i \in 1..Len(topic[k])} : k \in Partitions} :
        Unmarshal(m.value).err = NilErr}

\* C14 (as claimed): messages published for one card number are handed to
\* the pipeline in the order of their publication: when a message has been
\* handed to processMessage, every message published before it with the same
\* card number was handed to processMessage before it.
C14_PerCardOrder ==
    \A j \in 1..Len(handed) :
        \A m \in Published :
            (/\ MessageAt(handed[j]) \in Published
             /\ m.key = MessageAt(handed[j]).key
             /\ m.seq < MessageAt(handed[j]).seq)
                => \E i \in 1..(j - 1) : MessageAt(handed[i]) = m

\* The messages handed to processMessage whose payload passes every check
\* of the pipeline before the save.
HandedToSave ==
    {i \in 1..Len(handed) :
        /\ MessageAt(handed[i]) \in Published
        /\ PayloadValid(Unmarshal(MessageAt(handed[i]).value).payload)}

\* C15: with the workers of one consumer group, every message the group has
\* consumed was handed to processMessage exactly once, by the single worker
\* its partition was assigned to at that moment; that worker is inside
\* ProcessCardPayload for one message at a time, and the rows stored never
\* outnumber the messages handed on whose invocation has passed the save:
\* no message produces two rows.
C15_CompetingConsumers ==
    /\ [][Len(handed') > Len(handed)
            => /\ Len(handed') = Len(handed) + 1
               /\ \E w \in Workers :
                     /\ w = Owner(handed'[Len(handed')][1])
                     /\ wpc[w] = "loop"
                     /\ \A v \in Workers \ {w} :
                           /\ wpc'[v] = wpc[v]
                           /\ cur'[v] = cur[v]
                           /\ pc'[v] = pc[v]
                     /\ \A x \in log' \ log : x.worker = w]_vars
    /\ [](/\ \A k \in Partitions : \A o \in 0..(committed[k] - 1) :
                Cardinality({i \in 1..Len(handed) : handed[i] = <<k, o>>}) = 1
          /\ \A i \in 1..Len(handed) : handed[i][2] < committed[handed[i][1]]
          /\ \A x, y \in log :
                (x.msg = "Processing message" /\ y.msg = "Processing message"
                    /\ x.about = y.about) => x.worker = y.worker
          /\ \A v, w \in Workers :
                (v # w /\ cur[v] # NilMsg) => cur[v] # cur[w]
          /\ Len(transactions) + Cardinality({w \in Workers : pc[w] = "save"})
                <= Cardinality(HandedToSave)
          /\ \A i, j \in 1..Len(transactions) :
                i # j => transactions[i].ID # transactions[j].ID)

C15_Witness ==
    /\ Len(handed) = 2
    /\ \E x, y \in log :
          /\ x.msg = "Processing message" /\ x.worker = "worker"
          /\ y.msg = "Processing message" /\ y.worker = "worker2"
          /\ x.about # y.about
    /\ Len(transactions) = 2
    /\ \A w \in Workers : wpc[w] = "busy" /\ pc[w] = "settle"

\* What an invocation keeps for itself.
Locals(p) == <<pc[p], payload[p], card[p], transaction[p], err[p], injector[p]>>

\* The row an invocation past its save has stored carries its payload.
OwnRowStored(p) ==
    \E i \in RowsWithId(transaction[p].ID) :
        /\ RowsWithId(transaction[p].ID) = {i}
        /\ transactions[i].Amount = payload[p].amount
        /\ transactions[i].MerchantName = payload[p].merchant_name
        /\ transactions[i].Category = payload[p].category
        /\ transactions[i].CardID = card[p].id
        /\ transactions[i].UserID = card[p].user_id

\* C16: concurrent invocations of ProcessCardPayload share nothing in the
\* process: a step of one invocation changes the locals of no other; while
\* an invocation is in the settlement delay every other invocation can take
\* its next step (save, settle, return, or enter); a save adds exactly the
\* row of its own invocation, and every invocation past its save (n of them
\* side by side) has one row of its own with the data of its own payload.
C16_NoSharedState ==
    /\ [][/\ \A p, q \in Procs :
                (p # q /\ Locals(p)' # Locals(p)) => Locals(q)' = Locals(q)
          /\ \A p \in Procs :
                (pc[p] = "save" /\ pc'[p] = "settle")
                   => transactions' = Append(transactions, transaction[p])]_vars
    /\ [](\A p \in Callers :
            /\ pc[p] = "settle" =>
                  \A q \in Callers \ {p} :
                     /\ pc[q] = "save" => ENABLED Save(q)
                     /\ pc[q] = "settle" => ENABLED Settle(q)
                     /\ pc[q] = "done" => ENABLED Return(q)
                     /\ pc[q] = "idle" =>
                           \E pl \in CardPayload, now \in Clock :
                              ENABLED Call(q, pl, now)
            /\ (pc[p] = "settle" \/ (pc[p] = "done" /\ err[p] = NilErr))
                  => OwnRowStored(p))

C16_Witness ==
    /\ pc["http"] = "settle"
    /\ pc["worker"] = "settle"
    /\ Len(transactions) = 2
    /\ payload["http"].amount # payload["worker"].amount
    /\ OwnRowStored("http")
    /\ OwnRowStored("worker")
    /\ transaction["http"].ID # transaction["worker"].ID

\* C17 (as claimed): shutdown of a consumer process is cooperative: while a
\* worker is inside processMessage its process closes neither the reader
\* nor the database, and no invocation is cut off by the end of the process:
\* it runs to its end before the worker sees the cancellation.
C17_CooperativeShutdown ==
    \A w \in Workers :
        /\ mainPc[w] \in {"closed", "dbclosed"} => wpc[w] # "busy"
        /\ pc[w] # "exited"

\* The errors of ProcessCardPayload that are validation or not-found errors.
ClientErrors == {"card not found", "invalid timestamp",
                 "transaction validation failed"}

\* C18 (as claimed): POST /transactions answers 201 when ProcessCardPayload
\* returned a Transaction, a 4xx status when it failed with a validation
\* error or an unknown card, and a 5xx status only when it failed with a
\* settlement or storage error.
C18_StatusByErrorClass ==
    pc["http"] = "done" =>
        LET status == createTransactionStatus(FALSE, err["http"])
        IN  /\ err["http"] = NilErr => status = 201
            /\ (err["http"] # NilErr /\ err["http"][1] \in ClientErrors)
                  => status \in 400..499
            /\ status \in 500..599
                  => (err["http"] # NilErr /\ err["http"][1] \notin ClientErrors)

\* The key-value pairs of all the lines logged while a message was inside
\* processMessage.
FieldsAbout(about) == UNION {y.fields : y \in {z \in log : z.about = about}}

\* C19 (as claimed): for every message whose processing failed, by a value
\* that does not unmarshal or by an error of the pipeline, the log holds the
\* message's offset, its partition and its card number (read here in the
\* widest sense: in any of the lines logged for that message).
C19_FailureLoggedForReplay ==
    \A x \in FailureLines(log) :
        /\ <<"offset", x.about[2]>> \in FieldsAbout(x.about)
        /\ <<"partition", x.about[1]>> \in FieldsAbout(x.about)
        /\ <<"card_number", MessageAt(x.about).key>> \in FieldsAbout(x.about)

\* C20: every stored row has amount > 0 and a status of pending, completed
\* or failed; no invocation reaches the save with amount <= 0 (the validator
\* has rejected it), and the table on its own rejects the row an invocation
\* is about to save once its amount is made 0 or negative or its status is
\* made a fourth value.
C20_AmountAndStatusConstraints ==
    /\ \A i \in 1..Len(transactions) :
          /\ transactions[i].Amount > 0
          /\ transactions[i].Status \in {"pending", "completed", "failed"}
    /\ \A p \in Procs :
          pc[p] = "save" =>
             /\ transaction[p].Amount > 0
             /\ ValidateTransaction(transaction[p]) = NilErr
             /\ \A a \in {-1, 0} :
                   /\ ValidateTransaction([transaction[p] EXCEPT !.Amount = a])
                         = <<"amount must be positive">>
                   /\ ~TransactionInsertable(
                          [transaction[p] EXCEPT !.Amount = a])
             /\ ~TransactionInsertable(
                    [transaction[p] EXCEPT !.Status = "refunded"])

C20_Witness ==
    /\ \E p \in Procs :
          /\ pc[p] = "save"
          /\ TransactionInsertable(transaction[p])
          /\ ~TransactionInsertable([transaction[p] EXCEPT !.Amount = 0])
    /\ \E q \in Procs : pc[q] = "done" /\ err[q] = ErrAmountInvalid
    /\ Len(transactions) = 1
    /\ transactions[1].Amount = 100001

\* C21: a stored row keeps its id, user id, card id and amount (and its
\* merchant, category and timestamps of event and creation) in every step;
\* its status changes at most from pending to completed or failed, its
\* update time only with its status, and a completed or failed row does not
\* change at all; the row of an over-ceiling payment stays as it was stored
\* when its invocation returns failed.
C21_RowImmutable ==
    [][\A i \in 1..Len(transactions) :
          /\ i <= Len(transactions')
          /\ [transactions'[i] EXCEPT !.Status = "", !.UpdatedAt = 0]
                = [transactions[i] EXCEPT !.Status = "", !.UpdatedAt = 0]
          /\ \/ transactions'[i] = transactions[i]
             \/ /\ transactions[i].Status = "pending"
                /\ transactions'[i].Status \in {"completed", "failed"}
          /\ \A p \in Procs :
                (/\ pc[p] = "settle" /\ pc'[p] = "done"
                 /\ transaction[p].ID = transactions[i].ID
                 /\ transaction[p].Amount > AmountLimit)
                   => /\ transaction'[p].Status = "failed"
                      /\ transactions'[i] = transactions[i]]_vars

C21_Witness ==
    /\ Len(transactions) = 2
    /\ transactions[1].Amount = 100001
    /\ transactions[1].Status = "pending"
    /\ \E p \in Procs :
          /\ pc[p] = "done"
          /\ transaction[p].ID = transactions[1].ID
          /\ transaction[p].Status = "failed"
    /\ \E q \in Procs :
          /\ pc[q] = "done"
          /\ transaction[q].ID = transactions[2].ID
          /\ transaction[q].Status = "completed"

\* C22: in every state there is at most one card row per card number and
\* every card row references a stored user; a registration for a number
\* that a row already has, or for a user id that no user has, is rejected;
\* and a step changes the cards table only by adding one row that passes
\* both rules or by changing the active flag of a row.
C22_CardsUniqueAndOwned ==
    /\ [](/\ \A c, d \in cards : c.card_number = d.card_number => c = d
          /\ \A c \in cards : c.user_id \in users
          /\ \A u \in RequestUserIds, n \in CardNumbers :
                (CardsWithNumber(n) # {} \/ u \notin users)
                   => ~CardInsertable(NewCard(u, n)))
    /\ [][cards' # cards =>
            \/ \E c \in cards' \ cards :
                  /\ cards' = cards \cup {c}
                  /\ c.user_id \in users
                  /\ CardsWithNumber(c.card_number) = {}
            \/ /\ {[c EXCEPT !.is_active = TRUE] : c \in cards'}
                    = {[c EXCEPT !.is_active = TRUE] : c \in cards}
               /\ Cardinality(cards') = Cardinality(cards)]_vars

C22_Witness ==
    /\ users = UserIds
    /\ \E c \in cards : cards = {c} /\ c.user_id = "u1" /\ c.card_number = "4111"
    /\ ~CardInsertable(NewCard("u2", "4111"))
    /\ ~CardInsertable(NewCard("", "4111"))

\* C23: GET /users/{id}/transactions asks storage for limit 10 and offset 0
\* when the query string leaves them out, and also when the limit is not a
\* number, negative or 0 and when the offset is not a number or negative; a
\* positive limit and a non-negative offset are passed on as given. The
\* response is 200 with the page storage holds for that limit and offset.
C23_RestPaginationDefaults ==
    [][rest' # rest /\ rest'.op = "transactions" =>
          /\ rest'.limit = (CASE rest'.limitStr = "2" -> 2 [] OTHER -> 10)
          /\ rest'.offset = (CASE rest'.offsetStr = "1" -> 1 [] OTHER -> 0)
          /\ rest'.status = 200 /\ rest'.err = NilErr
          /\ rest'.transactions \in
                 GetTransactionsByUser(rest'.user, rest'.limit, rest'.offset)
          /\ Len(rest'.transactions) =
                 Min(rest'.limit,
                     IF Cardinality(UserRows(rest'.user)) > rest'.offset
                     THEN Cardinality(UserRows(rest'.user)) - rest'.offset
                     ELSE 0)]_vars

\* A request with limit 2 and offset 1 was answered with the second and the
\* third of the user's three rows.
C23_Witness ==
    /\ rest.op = "transactions"
    /\ rest.limitStr = "2" /\ rest.offsetStr = "1"
    /\ Len(rest.transactions) = 2
    /\ rest.transactions[1].ID = 102
    /\ Len(transactions) = 3

\* A request with limit 0 was answered with the default page of ten.
C23_WitnessZero ==
    /\ rest.op = "transactions"
    /\ rest.limitStr = "0" /\ rest.offsetStr = "-1"
    /\ rest.limit = 10 /\ rest.offset = 0
    /\ Len(rest.transactions) = 4

\* The same value given as a query string and as a GraphQL argument (both
\* left out, or the decimal text of the argument).
SameInput(str, arg) ==
    \/ str = "" /\ arg = <<>>
    \/ arg # <<>> /\ Atoi(str).err = NilErr /\ Atoi(str).n = arg[1]

\* C24: the GraphQL transactions query and processTransaction mutation do
\* what the REST forms do: for the same user, limit and offset (negative and
\* zero values included) the query asks GetUserTransactions for the same
\* limit and offset as GET /users/{id}/transactions, and for the same
\* payment the mutation hands ProcessCardPayload the same card number,
\* amount, merchant name and category as POST /transactions.
C24_GraphQLMatchesRest ==
    /\ (/\ rest.op = "transactions" /\ gql.op = "transactions"
         /\ rest.user = gql.user
         /\ SameInput(rest.limitStr, gql.limitArg)
         /\ SameInput(rest.offsetStr, gql.offsetArg))
        => rest.limit = gql.limit /\ rest.offset = gql.offset
    /\ (/\ rest.op = "process" /\ gql.op = "process"
         /\ rest.payload.card_number = gql.card_number
         /\ rest.payload.amount = gql.amount
         /\ rest.payload.merchant_name = gql.merchant_name
         /\ rest.payload.category = gql.payload.category)
        => /\ gql.payload.card_number = rest.payload.card_number
           /\ gql.payload.amount = rest.payload.amount
           /\ gql.payload.merchant_name = rest.payload.merchant_name

\* C25: GetUserSummary reports the aggregates of the user's completed rows:
\* total is the sum of their amounts, count their number, average the total
\* divided by the count, top category and top merchant a most frequent
\* value; rows that are pending or failed and rows of other users do not
\* count. (For 500, 1000, 1500 with food, food, gas: 3000, 3, 1000, food.)
C25_SummaryAggregatesCompleted ==
    [][(/\ rest' # rest /\ rest'.op = "summary"
        /\ CompletedRows(rest'.user) # {})
       => LET S == CompletedRows(rest'.user)
          IN  /\ rest'.err = NilErr
              /\ rest'.summary.UserID = rest'.user
              /\ rest'.summary.TotalAmount = SumAmounts(S)
              /\ rest'.summary.TotalCount = Cardinality(S)
              /\ rest'.summary.AvgAmount = SumAmounts(S) \div Cardinality(S)
              /\ rest'.summary.TopCategory \in Modes(S, "Category")
              /\ rest'.summary.TopMerchant \in
                     Modes(S, "MerchantName")]_vars

\* The zero-valued summary of a user.
ZeroSummary(userID) ==
    [UserID |-> userID, TotalAmount |-> 0, TotalCount |-> 0, AvgAmount |-> 0,
     TopCategory |-> "", TopMerchant |-> ""]

\* C26: for a user without completed rows (no rows, or pending and failed
\* rows only) GetUserSummary returns the zero-valued summary with the user
\* id and no error, GET /users/{id}/summary answers 200 with it, and the
\* userSummary query resolves to it.
C26_EmptySummaryIsZero ==
    /\ [](\A u \in UserIds : CompletedRows(u) = {} =>
              GetUserSummary(u) = {[summary |-> ZeroSummary(u), err |-> NilErr]})
    /\ [][(/\ rest' # rest /\ rest'.op = "summary"
            /\ CompletedRows(rest'.user) = {})
           => /\ rest'.status = 200 /\ rest'.err = NilErr
              /\ rest'.summary = ZeroSummary(rest'.user)]_vars
    /\ [][(/\ gql' # gql /\ gql'.op = "summary"
            /\ CompletedRows(gql'.user) = {})
           => /\ gql'.err = NilErr
              /\ gql'.summary = ZeroSummary(gql'.user)]_vars

\* The summary of a user whose rows are pending and failed was asked for and
\* answered with zeros and the user id.
C26_Witness ==
    /\ rest.op = "summary" /\ rest.user = "u1"
    /\ UserRows("u1") # {} /\ CompletedRows("u1") = {}
    /\ rest.status = 200
    /\ rest.summary.UserID = "u1" /\ rest.summary.TotalCount = 0

\* The errors of the two reference rules of ValidateTransaction.
ErrReferenceMissing ==
    {Wrap("transaction validation failed", <<"user ID cannot be empty">>),
     Wrap("transaction validation failed", <<"card ID cannot be empty">>)}

\* C27: no card row has an empty id or an empty user id, so whenever
\* GetCardByNumber succeeds the Transaction built from the card has a
\* non-empty user id and card id, and no call of ProcessCardPayload ever
\* returns one of the two reference errors.
C27_ReferenceMissingUnreachable ==
    /\ \A c \in cards : c.id # "" /\ c.user_id # ""
    /\ \A pl \in CardPayload, now \in Clock :
          GetCardByNumber(pl.card_number).err = NilErr =>
              LET built == BuildTransaction(pl,
                              GetCardByNumber(pl.card_number).card,
                              ParseRFC3339(pl.timestamp).t, now)
              IN  /\ built.UserID # "" /\ built.CardID # ""
                  /\ Intake(pl, now).err \notin ErrReferenceMissing
    /\ \A p \in Procs :
          /\ err[p] \notin ErrReferenceMissing
          /\ pc[p] \in {"save", "settle"} =>
                 transaction[p].UserID # "" /\ transaction[p].CardID # ""

\* A call resolved its card and passed validation while a second user had no
\* card.
C27_Witness ==
    \E p \in Procs :
        /\ pc[p] = "settle"
        /\ card[p] \in cards
        /\ transaction[p].UserID \in users
        /\ transaction[p].CardID = card[p].id
        /\ Cardinality(users) = 2

\* C28: a payload that is wrong in several ways gets the error of the first
\* stage that fails: "card not found" when no active card has its number,
\* whatever else is wrong; "invalid timestamp" when the card resolves and
\* the timestamp does not parse; a validation error only when both succeed.
\* A payload with amount <= 0 gets the amount error exactly when its card
\* resolves and its timestamp parses.
C28_ErrorPrecedence ==
    [][\A p \in Procs : Enters(p) =>
          LET pl == payload'[p]
              resolves == ActiveCardsWithNumber(pl.card_number) # {}
              parses == ParseRFC3339(pl.timestamp).err = NilErr
          IN  /\ ~resolves => err'[p] = ErrCardNotFound
              /\ (resolves /\ ~parses) => err'[p] = ErrTimestampInvalid
              /\ (resolves /\ parses /\ ~PayloadValid(pl)) =>
                     /\ Len(err'[p]) = 2
                     /\ err'[p][1] = "transaction validation failed"
              /\ (resolves /\ parses /\ PayloadValid(pl)) => err'[p] = NilErr
              /\ pl.amount <= 0 =>
                     (err'[p] = ErrAmountInvalid <=> (resolves /\ parses))]_vars

\* A call with amount 0, an empty merchant name and a timestamp that does
\* not parse, on a registered card, returned the timestamp error.
C28_Witness ==
    \E p \in Procs :
        /\ pc[p] = "done"
        /\ card[p] \in cards
        /\ payload[p].amount = 0 /\ payload[p].merchant_name = ""
        /\ payload[p].timestamp = "not-a-time"
        /\ err[p] = ErrTimestampInvalid

\* C29: what a caller is told and what the queries show agree: when
\* ProcessCardPayload has returned a Transaction with status completed,
\* GetUserSummary of its user succeeds and counts it (the count is at least
\* one and the total at least its amount), and the first page of
\* GetUserTransactions of its user lists it with status completed.
C29_AnswerAgreesWithQueries ==
    \A p \in Procs :
        (/\ pc[p] = "done" /\ err[p] = NilErr
         /\ transaction[p].Status = TransactionStatusCompleted)
        => /\ \A r \in GetUserSummary(transaction[p].UserID) :
                  /\ r.err = NilErr
                  /\ r.summary.TotalCount >= 1
                  /\ r.summary.TotalAmount >= transaction[p].Amount
           /\ \A r \in GetUserTransactions(transaction[p].UserID, 10, 0) :
                  \E k \in 1..Len(r.transactions) :
                      /\ r.transactions[k].ID = transaction[p].ID
                      /\ r.transactions[k].Status = TransactionStatusCompleted

\* Consumer.Start of worker w has returned nil (it logs this line and
\* nothing else before return nil).
Returned(w) ==
    Line(w, NoMessage, "Consumer context cancelled, shutting down", {}) \in log

\* C30: Consumer.Start returns only after its context is cancelled, and then
\* nil: its loop ends in no other way than by that return (or with its
\* process), main never logs a "Consumer error", and after a read failure
\* and after a processing failure the worker is back in the loop. Once the
\* context is cancelled Start returns, as long as its process lives and the
\* calls it is inside return.
C30_StartReturnsNilAfterCancel ==
    /\ [](\A w \in Workers : Returned(w) => mainPc[w] # "running")
    /\ [](\A l \in log : l.msg # "Consumer error")
    /\ [][\A w \in Workers :
            /\ (wpc[w] # "stopped" /\ wpc'[w] = "stopped") =>
                   /\ mainPc[w] # "running"
                   /\ Returned(w)' \/ mainPc'[w] = "exited"
            /\ (Line(w, NoMessage, "Failed to read message", {})
                    \in log' \ log) => wpc'[w] = "loop"
            /\ (wpc[w] = "busy" /\ pc[w] = "done" /\ err[w] # NilErr
                    /\ pc'[w] = "idle") => wpc'[w] = "loop"]_vars
    /\ \A w \in Workers :
          (mainPc[w] # "running") ~> (Returned(w) \/ mainPc[w] = "exited")

\* Start of a worker returned nil after cancellation, having logged a read
\* failure and a processing failure on the way, while its process lived on.
C30_Witness ==
    /\ Returned("worker")
    /\ wpc["worker"] = "stopped"
    /\ mainPc["worker"] = "cancelled"
    /\ Line("worker", NoMessage, "Failed to read message", {}) \in log
    /\ \E l \in log : l.worker = "worker" /\ l.msg = "Failed to process message"

=============================================================================
